---- MODULE Spec2Model ----
(***************************************************************************)
(* mdbook-backlinks: process_book (src/src/main.rs) builds a reverse link  *)
(* index over the chapters of a book and appends a "Backlinks" block to    *)
(* every chapter that is the target of at least one internal link.         *)
(*                                                                         *)
(* A path is the sequence of its "/"-separated segments; an absolute path  *)
(* has "/" (the root) as its first element.  A markdown text is the        *)
(* sequence of the events the link extractor can see in it.                *)
(***************************************************************************)
EXTENDS Integers, Sequences, FiniteSets, TLC

(***************************************************************************)
(* std::path, as far as process_book uses it.                              *)
(***************************************************************************)

\* Path::is_absolute / Path::is_relative (unix).
is_absolute(p) == Len(p) > 0 /\ p[1] = "/"

is_relative(p) == ~is_absolute(p)

\* Path::components: the root and a leading "." are kept, every other "."
\* is skipped.
RECURSIVE components(_)
components(p) ==
    IF Len(p) <= 1 THEN p
    ELSE LET front == components(SubSeq(p, 1, Len(p) - 1))
             last  == p[Len(p)]
         IN  IF last = "." THEN front ELSE Append(front, last)

\* Path::join: an absolute argument replaces the base.
join(base, p) == IF is_absolute(p) THEN p ELSE base \o p

\* Path::parent is None for the empty path and for the root.
has_parent(p) == LET c == components(p) IN Len(c) > 0 /\ c # <<"/">>

\* Path::parent().unwrap()
parent(p) == LET c == components(p) IN SubSeq(c, 1, Len(c) - 1)

\* PathBuf::pop: drops the last component; the root stays.
pop(lexical) ==
    IF Len(lexical) = 0 \/ lexical = <<"/">> THEN lexical
    ELSE SubSeq(lexical, 1, Len(lexical) - 1)

(***************************************************************************)
(* Results: Ok(value) or Err(NormalizeError).                              *)
(***************************************************************************)
Ok(v) == [ok |-> TRUE, v |-> v]

Err == [ok |-> FALSE, v |-> <<>>]

(***************************************************************************)
(* path_normalizer::PathNormalizeExt::normalize_path, called at            *)
(* main.rs:97.  The first component fixes the root (the root directory or  *)
(* a leading "."); then "." is dropped, ".." pops the last kept segment    *)
(* and is an error when only the root is left, anything else is kept.      *)
(***************************************************************************)

\* The loop without the check at the root: `..` at the root pops the root.
RECURSIVE lexical_loop_unchecked(_, _, _)
lexical_loop_unchecked(lexical, root, rest) ==
    IF Len(rest) = 0 THEN Ok(lexical)
    ELSE LET c == Head(rest) IN
         IF c = "." THEN lexical_loop_unchecked(lexical, root, Tail(rest))
         ELSE IF c = ".."
              THEN lexical_loop_unchecked(pop(lexical), root, Tail(rest))
              ELSE lexical_loop_unchecked(Append(lexical, c), root, Tail(rest))

\* The loop over the components after the root.
RECURSIVE lexical_loop(_, _, _)
lexical_loop(lexical, root, rest) ==
    IF Len(rest) = 0 THEN Ok(lexical)
    ELSE LET c == Head(rest) IN
         IF c = "." THEN lexical_loop(lexical, root, Tail(rest))
         ELSE IF c = ".."
              THEN IF Len(lexical) = root THEN Err
                   ELSE lexical_loop(pop(lexical), root, Tail(rest))
              ELSE lexical_loop(Append(lexical, c), root, Tail(rest))

normalize_lexically(p) ==
    LET c == components(p) IN
    IF Len(c) = 0 THEN Ok(<<>>)
    ELSE IF c[1] = ".." THEN Err
    ELSE IF c[1] = "/" \/ c[1] = "."
         THEN lexical_loop(<<c[1]>>, 1, Tail(c))
         ELSE lexical_loop(<<>>, 0, c)

\* impl PathNormalizeExt for Path (main.rs:88-100): a relative path is
\* anchored with a leading "." before it is normalized.
normalize_path(p) ==
    LET path == IF is_relative(p) THEN join(<<".">>, p) ELSE p
    IN  normalize_lexically(path)

(***************************************************************************)
(* Orderings.  str::cmp is the byte order; StrOrder lists every string of  *)
(* the model in that order.                                                *)
(***************************************************************************)
StrOrder ==
    << "", "Backlinks", "a", "abs", "alpha", "b", "beta", "ch1", "ch1.md",
       "ch2", "ch2.md", "ch3", "ch3.md", "deep", "deep.md", "doc.md",
       "draft", "example.com", "g.md", "gamma", "https:", "index",
       "index.md", "intro", "intro.md", "last_chapter", "last_chapter.md",
       "link", "mid", "mid.md", "one", "one.md", "outside", "solo",
       "solo.md", "sub", "t",
       "t.md", "top", "top.md", "two", "two.md", "up", "up.md", "x.md",
       "y.md", "z.md", "zeta" >>

StrRank == [s \in {StrOrder[k] : k \in DOMAIN StrOrder} |->
                CHOOSE k \in DOMAIN StrOrder : StrOrder[k] = s]

\* <String as Ord>::lt
str_lt(a, b) == StrRank[a] < StrRank[b]

\* #[derive(PartialOrd, Ord)] on std::path::Component:
\* RootDir < CurDir < ParentDir < Normal(_), Normal by its string.
component_kind(c) == IF c = "/" THEN 1 ELSE IF c = "." THEN 2 ELSE IF c = ".." THEN 3 ELSE 4

component_lt(a, b) ==
    \/ component_kind(a) < component_kind(b)
    \/ component_kind(a) = 4 /\ component_kind(b) = 4 /\ str_lt(a, b)

\* <Path as Ord>::lt, derived for NormalizedPathBuf (main.rs:68): the
\* components compare lexicographically, a proper prefix first.
RECURSIVE path_lt(_, _)
path_lt(a, b) ==
    IF Len(b) = 0 THEN FALSE
    ELSE IF Len(a) = 0 THEN TRUE
    ELSE IF Head(a) = Head(b) THEN path_lt(Tail(a), Tail(b))
    ELSE component_lt(Head(a), Head(b))

\* <Vec<u32> as Ord>::lt
RECURSIVE vec_lt(_, _)
vec_lt(a, b) ==
    IF Len(b) = 0 THEN FALSE
    ELSE IF Len(a) = 0 THEN TRUE
    ELSE IF Head(a) = Head(b) THEN vec_lt(Tail(a), Tail(b))
    ELSE Head(a) < Head(b)

\* Option<T>
Some(v) == [some |-> TRUE, v |-> v]

None == [some |-> FALSE, v |-> <<>>]

\* <Option<Vec<u32>> as Ord>::lt: None is less than every Some.
option_lt(a, b) ==
    IF a.some /\ b.some THEN vec_lt(a.v, b.v) ELSE ~a.some /\ b.some

\* The tuple pushed at main.rs:131-135.
Backlink(number, name, path) == [number |-> number, name |-> name, path |-> path]

\* Ord of the tuple (Option<Vec<u32>>, String, NormalizedPathBuf).
tuple_lt(r, s) ==
    \/ option_lt(r.number, s.number)
    \/ /\ r.number = s.number
       /\ \/ str_lt(r.name, s.name)
          \/ r.name = s.name /\ path_lt(r.path, s.path)

\* Itertools::sorted (main.rs:158): a stable ascending sort.
RECURSIVE insert_sorted(_, _)
insert_sorted(x, s) ==
    IF Len(s) = 0 THEN <<x>>
    ELSE IF tuple_lt(x, Head(s)) THEN <<x>> \o s
    ELSE <<Head(s)>> \o insert_sorted(x, Tail(s))

\* The backlinks in the order they were pushed.
unsorted(s) == s

RECURSIVE sorted(_)
sorted(s) ==
    IF Len(s) = 0 THEN <<>>
    ELSE insert_sorted(s[Len(s)], sorted(SubSeq(s, 1, Len(s) - 1)))

\* Every backlink kept, equal neighbours too.
no_dedup(s) == s

\* Itertools::dedup (main.rs:158): consecutive equal elements collapse.
RECURSIVE dedup(_)
dedup(s) ==
    IF Len(s) <= 1 THEN s
    ELSE LET front == dedup(SubSeq(s, 1, Len(s) - 1))
             last  == s[Len(s)]
         IN  IF front[Len(front)] = last THEN front ELSE Append(front, last)

(***************************************************************************)
(* pathdiff::diff_paths(path, base), called at main.rs:160.                *)
(***************************************************************************)
\* The path as it is, relative to the root of the book.
path_from_root(path, base) ==
    LET c == components(path)
    IN  Some(IF Len(c) > 0 /\ c[1] = "." THEN Tail(c) ELSE c)

RECURSIVE parent_dirs(_)
parent_dirs(n) == IF n = 0 THEN <<>> ELSE <<"..">> \o parent_dirs(n - 1)

\* The loop over the two component iterators; comps collects the result.
RECURSIVE diff_loop(_, _, _)
diff_loop(ita, itb, comps) ==
    IF Len(ita) = 0 /\ Len(itb) = 0 THEN Some(comps)
    ELSE IF Len(itb) = 0 THEN Some(comps \o ita)
    ELSE IF Len(ita) = 0 THEN diff_loop(ita, Tail(itb), Append(comps, ".."))
    ELSE IF Len(comps) = 0 /\ Head(ita) = Head(itb)
         THEN diff_loop(Tail(ita), Tail(itb), comps)
    ELSE IF Head(itb) = "."
         THEN diff_loop(Tail(ita), Tail(itb), Append(comps, Head(ita)))
    ELSE IF Head(itb) = ".." THEN None
    ELSE Some(comps \o parent_dirs(Len(itb)) \o ita)

diff_paths(path, base) ==
    IF is_absolute(path) # is_absolute(base)
    THEN IF is_absolute(path) THEN Some(path) ELSE None
    ELSE diff_loop(components(path), components(base), <<>>)

(***************************************************************************)
(* The book.  An item is a chapter or a separator; a chapter's content is  *)
(* the sequence of markdown events in it.                                  *)
(***************************************************************************)
Event(tag, dest_url, text) == [tag |-> tag, dest_url |-> dest_url, text |-> text]

\* An inline link "[link](dest_url)" of a chapter's text.
Link(dest_url) == Event("Link", dest_url, "link")

Chapter(name, source_path, number, content) ==
    [kind |-> "Chapter", name |-> name, source_path |-> source_path,
     number |-> number, content |-> content]

Separator ==
    [kind |-> "Separator", name |-> "", source_path |-> None,
     number |-> None, content |-> <<>>]

\* The chapters process_book looks at: `if let BookItem::Chapter(ch) = item
\* && let Some(path) = &ch.source_path` (main.rs:109-110, 118-119, 144-145).
has_source_path(item) == item.kind = "Chapter" /\ item.source_path.some

\* Only the first link of the text.
first_link_dest(content) ==
    LET links == SelectSeq(content, LAMBDA e : e.tag = "Link")
    IN  IF Len(links) = 0 THEN <<>> ELSE <<links[1].dest_url>>

\* The destinations the parser yields as Event::Start(Tag::Link { dest_url })
\* (main.rs:123-124), in the order of the text.
RECURSIVE link_dests(_)
link_dests(content) ==
    IF Len(content) = 0 THEN <<>>
    ELSE IF Head(content).tag = "Link"
         THEN <<Head(content).dest_url>> \o link_dests(Tail(content))
         ELSE link_dests(Tail(content))

(***************************************************************************)
(* The MarkdownBuilder calls of main.rs:150-170: the blank-line pad, the   *)
(* rule, the block quote with the heading and one list item per backlink.  *)
(***************************************************************************)
RECURSIVE list_items(_, _)
list_items(backlinks, base) ==
    IF Len(backlinks) = 0 THEN <<>>
    ELSE LET b == Head(backlinks)
             diff_path == diff_paths(b.path, base)
         IN  <<Event("Item", <<>>, ""), Event("Link", diff_path.v, b.name)>>
             \o list_items(Tail(backlinks), base)

\* Whether every diff_paths(..).unwrap() of the list succeeds.
all_diffable(backlinks, base) ==
    \A k \in DOMAIN backlinks : diff_paths(backlinks[k].path, base).some

backlinks_block(backlinks, base) ==
    << Event("Pad", <<>>, "\n\n"), Event("Rule", <<>>, ""),
       Event("BlockQuote", <<>>, ""), Event("Heading", <<>>, "Backlinks"),
       Event("List", <<>>, "") >>
    \o list_items(backlinks, base)
    \o << Event("EndList", <<>>, ""), Event("EndBlockQuote", <<>>, "") >>

\* The list without `.sorted()`.
listing_unsorted(backlinks) == dedup(unsorted(backlinks))

\* The list without `.dedup()`.
listing_undeduped(backlinks) == no_dedup(sorted(backlinks))

\* The list as iterated at main.rs:158.
listing(backlinks) == dedup(sorted(backlinks))

(***************************************************************************)
(* Bounded inputs: a layout fixes the items of a book and the link         *)
(* destinations its free chapters may hold; a free chapter's content is    *)
(* any sequence of at most MaxLinks of them.                               *)
(***************************************************************************)
MaxLinks == 2

RECURSIVE SeqsUpTo(_, _)
SeqsUpTo(S, n) ==
    IF n = 0 THEN {<<>>}
    ELSE LET shorter == SeqsUpTo(S, n - 1)
         IN  shorter \cup {Append(s, x) : s \in {t \in shorter : Len(t) = n - 1}, x \in S}

LinkSeq(dests) == [k \in DOMAIN dests |-> Link(dests[k])]

\* The book of the test at main.rs:230-293.
TestBook ==
    << Chapter("index", Some(<<"index.md">>), Some(<<0>>),
               LinkSeq(<< <<"b", "last_chapter.md">> >>)),
       Chapter("ch1", Some(<<"a", "ch1.md">>), Some(<<1, 1>>),
               LinkSeq(<< <<"..", "b", "last_chapter.md">> >>)),
       Chapter("ch2", Some(<<"b", "ch2.md">>), Some(<<2, 2>>),
               LinkSeq(<< <<"last_chapter.md">> >>)),
       Chapter("ch3", Some(<<"b", "ch3.md">>), Some(<<2, 1>>),
               LinkSeq(<< <<"last_chapter.md">> >>)),
       Chapter("last_chapter", Some(<<"b", "last_chapter.md">>), Some(<<2, 3>>), <<>>) >>

\* The scenario of the specification: the test's book with an unnumbered index.
ScenarioLayout ==
    [items |-> << Chapter("index", Some(<<"index.md">>), None, <<>>),
                  TestBook[2], TestBook[3], TestBook[4], TestBook[5] >>,
     free  |-> {1, 5},
     dests |-> { <<"b", "last_chapter.md">>, <<"..", "index.md">> }]

\* Two entries of the summary for one file, a separator and a draft chapter.
DuplicateLayout ==
    [items |-> << Chapter("intro", Some(<<"intro.md">>), Some(<<1>>), <<>>),
                  Separator,
                  Chapter("intro", Some(<<"a", "..", "intro.md">>), Some(<<2>>), <<>>),
                  Chapter("t", Some(<<"a", "t.md">>), Some(<<3>>),
                          LinkSeq(<< <<"..", "intro.md">>, <<"t.md">> >>)),
                  Chapter("solo", Some(<<"a", "solo.md">>), Some(<<4>>),
                          LinkSeq(<< <<"..", "intro.md">> >>)),
                  Chapter("draft", None, None,
                          LinkSeq(<< <<"a", "t.md">>, <<"intro.md">> >>)) >>,
     free  |-> {1, 3},
     dests |-> { <<".", "a", "t.md">>, <<"https:", "example.com">> }]

\* Links that leave the book, from chapters at depth 0, 1 and 2.
ExternalLayout ==
    [items |-> << Chapter("top", Some(<<"top.md">>), None, <<>>),
                  Chapter("mid", Some(<<"a", "mid.md">>), Some(<<1>>), <<>>),
                  Chapter("deep", Some(<<"a", "b", "deep.md">>), Some(<<1, 1>>),
                          LinkSeq(<< <<"https:", "example.com">>,
                                     <<"..", "..", "outside", "doc.md">>,
                                     <<"/", "abs", "doc.md">>,
                                     <<"..", "mid.md">> >>)) >>,
     free  |-> {1, 2},
     dests |-> { <<"https:", "example.com">>, <<"..", "outside", "doc.md">> }]

\* A source path above the root, after chapters that link to each other.
EscapingLayout ==
    [items |-> << Chapter("one", Some(<<"one.md">>), Some(<<1>>),
                          LinkSeq(<< <<"sub", "two.md">> >>)),
                  Chapter("two", Some(<<"sub", "two.md">>), Some(<<2>>), <<>>),
                  Chapter("up", Some(<<"..", "up.md">>), Some(<<3>>),
                          LinkSeq(<< <<"one.md">> >>)) >>,
     free  |-> {2},
     dests |-> { <<"..", "one.md">>, <<"two.md">> }]

\* Sources that tie on the number, and on the number and the name, visited
\* in descending order.
OrderingLayout ==
    [items |-> << Chapter("zeta", Some(<<"z.md">>), None, LinkSeq(<< <<"t.md">> >>)),
                  Chapter("alpha", Some(<<"b", "x.md">>), None,
                          LinkSeq(<< <<"..", "t.md">> >>)),
                  Chapter("alpha", Some(<<"a", "x.md">>), None, <<>>),
                  Chapter("beta", Some(<<"a", "y.md">>), Some(<<1, 1>>), <<>>),
                  Chapter("gamma", Some(<<"a", "g.md">>), Some(<<1>>),
                          LinkSeq(<< <<"..", "t.md">> >>)),
                  Chapter("t", Some(<<"t.md">>), Some(<<2>>), <<>>) >>,
     free  |-> {3, 4},
     dests |-> { <<"..", "t.md">>, <<"x.md">> }]

Layouts == {ScenarioLayout, DuplicateLayout, ExternalLayout, EscapingLayout, OrderingLayout}

BooksOf(layout) ==
    { [k \in DOMAIN layout.items |->
          IF k \in layout.free
          THEN [layout.items[k] EXCEPT !.content = LinkSeq(f[k])]
          ELSE layout.items[k]] :
      f \in [layout.free -> SeqsUpTo(layout.dests, MaxLinks)] }

Books == {TestBook} \cup UNION {BooksOf(layout) : layout \in Layouts}

(***************************************************************************)
(* Bounded inputs of the normalizer on its own.                            *)
(***************************************************************************)
MaxSegments == 4

Segments == {".", "..", "a", "b"}

RelativeInputs == SeqsUpTo(Segments, MaxSegments)

AbsoluteInputs == {<<"/">> \o s : s \in SeqsUpTo(Segments, MaxSegments - 1)}

(***************************************************************************)
(* State.                                                                  *)
(***************************************************************************)
VARIABLES
    pc,             \* where process_book is: "seed", "populate", "splice",
                    \* "ok" (returned Ok(book)), "err" (returned Err), "panic"
    book,           \* the book process_book owns
    given,          \* the book as it was handed to process_book
    backlinks_map,  \* HashMap<NormalizedPathBuf, Vec<_>> (main.rs:104)
    i,              \* the item the running loop is at
    j,              \* the link of that item the populate loop is at
    listed,         \* per item, the backlinks iterated at main.rs:158
    reads,          \* per item, how often its content was parsed for links
                    \* after some chapter had been appended to
    npc, input, once, twice   \* the normalizer on its own

bvars == <<pc, book, given, backlinks_map, i, j, listed, reads>>

nvars == <<npc, input, once, twice>>

vars == <<pc, book, given, backlinks_map, i, j, listed, reads, npc, input, once, twice>>

EmptyMap == [k \in {} |-> <<>>]

contents(b) == [k \in DOMAIN b |-> b[k].content]

Init ==
    /\ pc = "seed"
    /\ book \in Books
    /\ given = book
    /\ backlinks_map = EmptyMap
    /\ i = 1
    /\ j = 1
    /\ listed = [k \in DOMAIN book |-> <<>>]
    /\ reads = 0
    /\ npc = "off" /\ input = <<>> /\ once = Err /\ twice = Err

(***************************************************************************)
(* process_book (main.rs:102-175), one loop iteration per step.            *)
(***************************************************************************)

\* HashMap::insert: the value of an existing key is replaced.
insert(map, key, value) ==
    [k \in DOMAIN map \cup {key} |-> IF k = key THEN value ELSE map[k]]

\* The first loop (main.rs:108-114) on item i.
SeedStep ==
    /\ pc = "seed"
    /\ LET item == book[i]
           path == normalize_path(item.source_path.v)
       IN  IF has_source_path(item) /\ ~path.ok
           THEN /\ pc' = "err"
                /\ UNCHANGED <<backlinks_map, i>>
           ELSE /\ backlinks_map' =
                       IF has_source_path(item)
                       THEN insert(backlinks_map, path.v, <<>>)
                       ELSE backlinks_map
                /\ IF i = Len(book)
                   THEN pc' = "populate" /\ i' = 1
                   ELSE pc' = pc /\ i' = i + 1
    /\ UNCHANGED <<book, given, j, listed, reads>>
    /\ UNCHANGED nvars

\* `backlinks_map.entry(dest_chapter).or_default().push(..)` in place of
\* get_mut.
push_or_insert(map, key, backlink) ==
    IF key \in DOMAIN map
    THEN [map EXCEPT ![key] = Append(@, backlink)]
    ELSE insert(map, key, <<backlink>>)

\* main.rs:130-136: the backlink is pushed only on a key the map holds.
push_if_present(map, key, backlink) ==
    IF key \in DOMAIN map
    THEN [map EXCEPT ![key] = Append(@, backlink)]
    ELSE map

\* The destination resolved against the root of the book.
resolve_from_root(path, dest_url) == normalize_path(dest_url)

\* main.rs:125-129: the destination joined to the directory of the linking
\* chapter's normalized path, and normalized.
resolve(path, dest_url) == normalize_path(join(parent(path), dest_url))

\* The target's chapters get the backlink's list item as soon as it is pushed.
splice_on_push(b, key, backlink) ==
    [k \in DOMAIN b |->
        IF has_source_path(b[k]) /\ normalize_path(b[k].source_path.v) = Ok(key)
        THEN [b[k] EXCEPT !.content =
                 @ \o <<Event("Item", <<>>, ""),
                        Event("Link", diff_paths(backlink.path, parent(key)).v,
                              backlink.name)>>]
        ELSE b[k]]

\* The populate loop holds the book by `book.iter()` (main.rs:117): pushing
\* a backlink leaves every chapter as it is.
book_after_push(b, key, backlink) == b

\* The end of the populate loop's iteration on item i.
next_chapter ==
    /\ j' = 1
    /\ IF i = Len(book)
       THEN pc' = "splice" /\ i' = 1
       ELSE pc' = pc /\ i' = i + 1

\* The second loop (main.rs:117-140): item i, the j-th link of its content.
PopulateStep ==
    /\ pc = "populate"
    /\ LET item  == book[i]
           path  == normalize_path(item.source_path.v)
           dests == link_dests(item.content)
       IN  IF ~has_source_path(item)
           THEN next_chapter /\ UNCHANGED <<book, backlinks_map, reads>>
           ELSE IF ~path.ok
           THEN pc' = "err" /\ UNCHANGED <<book, backlinks_map, i, j, reads>>
           ELSE IF j > Len(dests)
           THEN next_chapter /\ UNCHANGED <<book, backlinks_map, reads>>
           ELSE IF ~has_parent(path.v)
           THEN pc' = "panic" /\ UNCHANGED <<book, backlinks_map, i, j, reads>>
           ELSE LET dest_chapter == resolve(path.v, dests[j])
                    backlink     == Backlink(item.number, item.name, path.v)
                IN  /\ reads' = IF contents(book) = contents(given)
                                THEN reads ELSE reads + 1
                    /\ IF ~dest_chapter.ok
                       THEN pc' = "err" /\ UNCHANGED <<book, backlinks_map, i, j>>
                       ELSE /\ backlinks_map' =
                                   push_if_present(backlinks_map, dest_chapter.v, backlink)
                            /\ book' = book_after_push(book, dest_chapter.v, backlink)
                            /\ j' = j + 1
                            /\ UNCHANGED <<pc, i>>
    /\ UNCHANGED <<given, listed>>
    /\ UNCHANGED nvars

\* Every chapter the map holds gets a block, an empty one too.
splice_always(backlinks) == TRUE

\* `backlinks.len() >= 1` (main.rs:148).
should_splice(backlinks) == Len(backlinks) >= 1

\* The third loop (main.rs:143-172) on item i.
SpliceStep ==
    /\ pc = "splice"
    /\ LET item        == book[i]
           source_path == normalize_path(item.source_path.v)
           found       == has_source_path(item) /\ source_path.ok
                          /\ source_path.v \in DOMAIN backlinks_map
           backlinks   == IF found THEN backlinks_map[source_path.v] ELSE <<>>
           shown       == listing(backlinks)
       IN  IF has_source_path(item) /\ ~source_path.ok
           THEN pc' = "panic" /\ UNCHANGED <<book, listed, i>>
           ELSE IF found /\ should_splice(backlinks)
           THEN IF ~has_parent(source_path.v)
                   \/ ~all_diffable(shown, parent(source_path.v))
                THEN pc' = "panic" /\ UNCHANGED <<book, listed, i>>
                ELSE /\ book' = [book EXCEPT ![i].content =
                            @ \o backlinks_block(shown, parent(source_path.v))]
                     /\ listed' = [listed EXCEPT ![i] = shown]
                     /\ IF i = Len(book)
                        THEN pc' = "ok" /\ i' = i
                        ELSE pc' = pc /\ i' = i + 1
           ELSE /\ UNCHANGED <<book, listed>>
                /\ IF i = Len(book)
                   THEN pc' = "ok" /\ i' = i
                   ELSE pc' = pc /\ i' = i + 1
    /\ UNCHANGED <<given, backlinks_map, j, reads>>
    /\ UNCHANGED nvars

Next == SeedStep \/ PopulateStep \/ SpliceStep

Spec == Init /\ [][Next]_vars

(***************************************************************************)
(* normalize_path on its own: a path, normalized, and the result           *)
(* normalized again.                                                       *)
(***************************************************************************)
NInit ==
    /\ npc = "start"
    /\ input \in RelativeInputs \cup AbsoluteInputs
    /\ once = Err
    /\ twice = Err
    /\ pc = "off" /\ book = <<>> /\ given = <<>> /\ backlinks_map = EmptyMap
    /\ i = 1 /\ j = 1 /\ listed = <<>> /\ reads = 0

\* The first call, on the input.
NormalizeInput ==
    /\ npc = "start"
    /\ once' = normalize_path(input)
    /\ npc' = IF once'.ok THEN "normalized" ELSE "failed"
    /\ UNCHANGED <<input, twice>>
    /\ UNCHANGED bvars

\* The second call, on the NormalizedPathBuf the first call returned.
NormalizeAgain ==
    /\ npc = "normalized"
    /\ twice' = normalize_path(once.v)
    /\ npc' = "renormalized"
    /\ UNCHANGED <<input, once>>
    /\ UNCHANGED bvars

NNext == NormalizeInput \/ NormalizeAgain

SpecNormalize == NInit /\ [][NNext]_vars

(***************************************************************************)
(* What the properties speak of, stated on the book as it was given.       *)
(***************************************************************************)
Range(s) == {s[n] : n \in DOMAIN s}

\* The chapters that have a source path.
ChapterItems == {k \in DOMAIN given : given[k].kind = "Chapter" /\ given[k].source_path.some}

NPath(k) == normalize_path(given[k].source_path.v)

ChapterPaths == {NPath(k).v : k \in {c \in ChapterItems : NPath(c).ok}}

\* The directory of a chapter's normalized path.
Dir(k) == parent(NPath(k).v)

\* A link destination of chapter c, joined to the chapter's directory and normalized.
Resolved(c, d) == normalize_path(join(Dir(c), d))

\* The places of the links in the content chapter c was given with.
LinkPlaces(c) == {n \in DOMAIN given[c].content : given[c].content[n].tag = "Link"}

\* The n-th event of chapter c is a link that resolves to the path key.
LinkHits(c, n, key) ==
    LET r == Resolved(c, given[c].content[n].dest_url) IN r.ok /\ r.v = key

LinksTo(c, t) == \E n \in LinkPlaces(c) : LinkHits(c, n, NPath(t).v)

\* The entry chapter c leaves in the lists of its targets.
EntryOf(c) == Backlink(given[c].number, given[c].name, NPath(c).v)

\* The link events appended to item k.
AppendedLinks(k) ==
    SelectSeq(SubSeq(book[k].content, Len(given[k].content) + 1, Len(book[k].content)),
              LAMBDA e : e.tag = "Link")

\* process_book returned an error from the populate loop, at link j of item i.
ErrAtLink ==
    /\ pc = "err"
    /\ i \in ChapterItems
    /\ NPath(i).ok

\* Every link of the given book: a chapter and the place of the link in it.
AllLinks == UNION {{<<c, n>> : n \in LinkPlaces(c)} : c \in ChapterItems}

\* The link at place n is the Ordinal(c, n)-th link of chapter c.
Ordinal(c, n) == Cardinality({q \in LinkPlaces(c) : q <= n})

\* The links the populate loop has gone through.
Processed(c, n) ==
    \/ pc \in {"splice", "ok"}
    \/ (pc = "populate" \/ ErrAtLink) /\ (c < i \/ (c = i /\ Ordinal(c, n) < j))

\* The destination of the link at place n of chapter c.
DestAt(c, n) == given[c].content[n].dest_url

\* C1: after process_book succeeds, the list of T holds an entry for C exactly
\* when a link of C, joined to C's directory and normalized, is T's normalized
\* path (C = T allowed); every entry is the entry of a chapter with a source
\* path, so a chapter without one contributes none.
C1_EntryIffLink ==
    pc = "ok" =>
        /\ \A c \in ChapterItems : \A t \in ChapterItems :
               (EntryOf(c) \in Range(listed[t])) <=> LinksTo(c, t)
        /\ \A t \in DOMAIN listed : \A e \in Range(listed[t]) :
               \E c \in ChapterItems : e = EntryOf(c)

C1_Witness ==
    /\ pc = "ok"
    /\ \E c \in ChapterItems : LinksTo(c, c)
    /\ \E c \in ChapterItems : \E t \in ChapterItems \ {c} :
           LinksTo(c, t) /\ Cardinality({n \in LinkPlaces(c) : LinkHits(c, n, NPath(t).v)}) = 1
    /\ \E c \in ChapterItems : \E t \in ChapterItems : ~LinksTo(c, t) /\ listed[t] # <<>>
    /\ \E k \in DOMAIN given :
           /\ given[k].kind = "Chapter" /\ ~given[k].source_path.some
           /\ given[k].content # <<>>

\* C2 as stated: the rendered list of a target holds at most one item per
\* (source name, source path) pair, whatever the chapter numbers.
C2_OnePerNameAndPath ==
    \A k \in DOMAIN listed : \A p \in DOMAIN listed[k] : \A q \in DOMAIN listed[k] :
        (listed[k][p].name = listed[k][q].name /\ listed[k][p].path = listed[k][q].path)
            => p = q

\* C2, amended: the rendered list of a target holds at most one entry per
\* (chapter number, source name, source path) triple, however many links the
\* source holds to that target.
C2_OnePerNumberNameAndPath ==
    \A k \in DOMAIN listed : \A p \in DOMAIN listed[k] : \A q \in DOMAIN listed[k] :
        listed[k][p] = listed[k][q] => p = q

C2_Witness ==
    /\ pc = "ok"
    /\ \E k \in ChapterItems :
           /\ listed[k] # <<>>
           /\ Len(backlinks_map[NPath(k).v]) > Len(listed[k])

\* The order C3 names, stated place by place: a sequence is before another
\* when it is a proper prefix of it or is smaller at the first place they
\* differ.
NumberBefore(a, b) ==
    \E n \in 1..Len(b) :
        /\ n <= Len(a) + 1
        /\ \A m \in 1..(n - 1) : a[m] = b[m]
        /\ n = Len(a) + 1 \/ a[n] < b[n]

PathBefore(a, b) ==
    \E n \in 1..Len(b) :
        /\ n <= Len(a) + 1
        /\ \A m \in 1..(n - 1) : a[m] = b[m]
        /\ n = Len(a) + 1 \/ StrRank[a[n]] < StrRank[b[n]]

EntryBefore(r, s) ==
    \/ ~r.number.some /\ s.number.some
    \/ r.number.some /\ s.number.some /\ NumberBefore(r.number.v, s.number.v)
    \/ /\ r.number = s.number
       /\ \/ StrRank[r.name] < StrRank[s.name]
          \/ r.name = s.name /\ PathBefore(Tail(r.path), Tail(s.path))

\* C3: the entries of every list are in ascending order of (chapter number,
\* source name, source path), unnumbered entries first and a proper prefix of
\* a number before its extensions; the list is the ascending enumeration of
\* its entries, whatever the order they were pushed in.
C3_ListAscending ==
    \A k \in DOMAIN listed : \A p \in DOMAIN listed[k] : \A q \in DOMAIN listed[k] :
        p < q => EntryBefore(listed[k][p], listed[k][q])

C3_Witness ==
    /\ pc = "ok"
    /\ \E k \in ChapterItems :
           /\ Len(listed[k]) >= 4
           /\ listed[k] # backlinks_map[NPath(k).v]
           /\ \E p \in DOMAIN listed[k] : ~listed[k][p].number.some
           /\ \E p \in DOMAIN listed[k] :
                  /\ p < Len(listed[k])
                  /\ listed[k][p].number = Some(<<1>>)
                  /\ listed[k][p + 1].number = Some(<<1, 1>>)
           /\ \E p \in DOMAIN listed[k] :
                  /\ p < Len(listed[k])
                  /\ listed[k][p].number = listed[k][p + 1].number
                  /\ listed[k][p].name = listed[k][p + 1].name

\* How far below the root a walk along the first n segments of d ends that
\* starts depth directories deep: ".." goes up, "." stays, a name goes down.
LevelAfter(depth, d, n) ==
    depth + Cardinality({m \in 1..n : d[m] \notin {".", "..", "/"}})
          - Cardinality({m \in 1..n : d[m] = ".."})

\* The destination d, followed from the directory of chapter c, climbs above
\* the root.
EscapesRoot(c, d) ==
    \E n \in 1..Len(d) :
        LevelAfter(IF is_absolute(d) THEN 0 ELSE Len(Dir(c)) - 1, d, n) < 0

\* The destinations C4 names.
OutsideExamples == { <<"https:", "example.com">>, <<"..", "outside", "doc.md">> }

\* The link the populate loop is at.
CurrentLink == DestAt(i, CHOOSE n \in LinkPlaces(i) : Ordinal(i, n) = j)

\* The number of backlinks the index holds.
RECURSIVE SumLen(_, _)
SumLen(map, keys) ==
    IF keys = {} THEN 0
    ELSE LET key == CHOOSE x \in keys : TRUE
         IN  Len(map[key]) + SumLen(map, keys \ {key})

\* The processed links that resolve to a chapter of the book.
ProcessedHits ==
    LET paths == ChapterPaths
    IN  {l \in AllLinks :
            /\ Processed(l[1], l[2])
            /\ LET r == Resolved(l[1], DestAt(l[1], l[2])) IN r.ok /\ r.v \in paths}

\* C4 as stated: a link to https://example.com or to ../outside/doc.md never
\* makes process_book fail, whatever the depth of the linking chapter.
C4_OutsideLinkNeverFails ==
    ~(ErrAtLink /\ CurrentLink \in OutsideExamples)

\* C4, amended: a link that leaves the book creates no index entry and no
\* backlink record, and process_book fails at a link only when its destination,
\* followed from the linking chapter's directory, climbs above the root: an
\* absolute URL never does, ../outside/doc.md does from a top-level chapter.
C4_OutsideLinkSkippedUnlessEscaping ==
    /\ ErrAtLink => EscapesRoot(i, CurrentLink)
    /\ \A l \in AllLinks :
           Processed(l[1], l[2]) => ~EscapesRoot(l[1], DestAt(l[1], l[2]))
    /\ pc \in {"populate", "splice", "ok"} \/ ErrAtLink =>
           /\ DOMAIN backlinks_map = ChapterPaths
           /\ SumLen(backlinks_map, DOMAIN backlinks_map) = Cardinality(ProcessedHits)

C4_Witness ==
    /\ pc = "ok"
    /\ \E c \in ChapterItems : \E n \in LinkPlaces(c) :
           /\ Len(Dir(c)) = 1
           /\ given[c].content[n].dest_url = <<"https:", "example.com">>
    /\ \E c \in ChapterItems : \E n \in LinkPlaces(c) :
           /\ Len(Dir(c)) = 2
           /\ given[c].content[n].dest_url = <<"..", "outside", "doc.md">>
    /\ \E c \in ChapterItems : \E n \in LinkPlaces(c) :
           /\ Len(Dir(c)) = 3
           /\ given[c].content[n].dest_url = <<"/", "abs", "doc.md">>

\* C5: when process_book returns the error of a failed normalization (of a
\* source path or of a resolved link destination), no item of the book has
\* been modified.
C5_ErrorLeavesBookUntouched == pc = "err" => book = given

C5_Witness ==
    /\ ErrAtLink
    /\ EscapesRoot(i, CurrentLink)
    /\ \E key \in DOMAIN backlinks_map : backlinks_map[key] # <<>>

\* C6: an item no link resolves to is left exactly as it was given, an item
\* without a source path included (an item that differs from what was given
\* is a chapter with a source path that some link resolves to); whatever
\* changes has its given content as a prefix and keeps its name, path and
\* number.
C6_UnlinkedUnchanged ==
    \A k \in DOMAIN book :
        /\ book[k] # given[k]
               => k \in ChapterItems /\ \E c \in ChapterItems : LinksTo(c, k)
        /\ book[k] = [given[k] EXCEPT !.content = book[k].content]
        /\ Len(book[k].content) >= Len(given[k].content)
        /\ SubSeq(book[k].content, 1, Len(given[k].content)) = given[k].content

C6_Witness ==
    /\ pc = "ok"
    /\ \E k \in ChapterItems : book[k] # given[k]
    /\ \E k \in ChapterItems : book[k] = given[k] /\ given[k].content # <<>>
    /\ \E k \in DOMAIN book \ ChapterItems : given[k].kind = "Chapter"

\* The relative path from the directory dir to path: one ".." for every
\* segment of dir beyond the common prefix, then the rest of path.
CommonPrefix(a, b) ==
    CHOOSE n \in 0..Len(a) :
        /\ n <= Len(b)
        /\ \A m \in 1..n : a[m] = b[m]
        /\ n = Len(a) \/ n = Len(b) \/ a[n + 1] # b[n + 1]

RelativeFrom(dir, path) ==
    LET n == CommonPrefix(dir, path)
    IN  [m \in 1..(Len(dir) - n) |-> ".."] \o SubSeq(path, n + 1, Len(path))

\* C7: the links of the block appended to T are, entry by entry, a link whose
\* text is the source's name and whose destination is the relative path from
\* the directory of T's normalized path to the source's normalized path; that
\* destination, followed from T's directory, leads to the source.
C7_ItemsAreRelativeLinks ==
    \A t \in DOMAIN book :
        book[t] # given[t] =>
            /\ Len(AppendedLinks(t)) = Len(listed[t])
            /\ \A n \in DOMAIN listed[t] :
                   /\ AppendedLinks(t)[n].text = listed[t][n].name
                   /\ AppendedLinks(t)[n].dest_url = RelativeFrom(Dir(t), listed[t][n].path)
                   /\ normalize_path(join(Dir(t), AppendedLinks(t)[n].dest_url))
                          = Ok(listed[t][n].path)

C7_Witness ==
    /\ pc = "ok"
    /\ given[1].name = "index" /\ given[5].name = "last_chapter"
    /\ AppendedLinks(5) =
           << Event("Link", <<"..", "index.md">>, "index"),
              Event("Link", <<"..", "a", "ch1.md">>, "ch1"),
              Event("Link", <<"ch3.md">>, "ch3"),
              Event("Link", <<"ch2.md">>, "ch2") >>
    /\ AppendedLinks(1) = << Event("Link", <<"b", "last_chapter.md">>, "last_chapter") >>

\* C8: in every state of the index construction and after it, every key of
\* the index is the normalized source path of a chapter of the book; once the
\* seed loop is over the keys are exactly those paths, so the populate loop
\* adds none.
C8_KeysAreChapterPaths ==
    LET paths == ChapterPaths
    IN  /\ DOMAIN backlinks_map \subseteq paths
        /\ pc \in {"populate", "splice", "ok"} => DOMAIN backlinks_map = paths

C8_Witness ==
    /\ pc = "populate"
    /\ j > 1
    /\ \E n \in LinkPlaces(i) :
           /\ Ordinal(i, n) = j - 1
           /\ Resolved(i, DestAt(i, n)).ok
           /\ Resolved(i, DestAt(i, n)).v \notin ChapterPaths

\* C9: when normalize_path succeeds on a path, it succeeds on the result and
\* returns it unchanged.
C9_NormalizeIdempotent ==
    npc = "renormalized" => twice.ok /\ twice.v = once.v

C9_Witness ==
    /\ npc = "renormalized"
    /\ is_relative(input)
    /\ \E n \in DOMAIN input : input[n] = ".."
    /\ \E n \in DOMAIN input : input[n] = "."
    /\ Len(once.v) = 2

\* The populate loop is over: the index holds one backlink for every link of
\* the given contents that resolves to a chapter.
IndexComplete ==
    /\ DOMAIN backlinks_map = ChapterPaths
    /\ \A key \in ChapterPaths :
           Len(backlinks_map[key]) =
               Cardinality({l \in AllLinks : LinkHits(l[1], l[2], key)})

\* C10: the passes run one after the other: while the index is being seeded
\* and populated the book is as it was given, a content is never parsed for
\* links after some chapter was appended to, the first append finds the index
\* complete, and every backlink of the index comes from a link of the given
\* contents.
C10_PassesInSequence ==
    /\ pc \in {"seed", "populate"} => book = given
    /\ reads = 0
    /\ book # given => IndexComplete
    /\ \A key \in DOMAIN backlinks_map : \A e \in Range(backlinks_map[key]) :
           \E c \in ChapterItems :
               /\ e = EntryOf(c)
               /\ \E n \in LinkPlaces(c) : LinkHits(c, n, key)

C10_Witness ==
    /\ pc = "splice"
    /\ book # given
    /\ \E k \in ChapterItems : k >= i /\ given[k].content # <<>>
    /\ \E k \in ChapterItems : k < i /\ book[k] # given[k] /\ LinksTo(k, k)
====
